---- MODULE Spec2Model ----
(***************************************************************************)
(* Model of mmseg/models/losses/binary_cross_entropy_loss.py:              *)
(*   calculate_weights, _expand_onehot_labels, binary_cross_entropy and    *)
(*   BinaryCrossEntropyLoss.forward.                                       *)
(*                                                                         *)
(* A tensor is a record [none, shape, data]: shape is the torch shape and  *)
(* data maps every index tuple (1-based) to the element.  Python's None is *)
(* the record NoneT.  The caller's label and weight tensors are state: the *)
(* code writes to them in place.  The logits of the prediction are never   *)
(* read by any decision of the code, so the prediction is its shape and    *)
(* the elementwise loss at an index is the symbolic term (target, positive *)
(* weight, sample weight) of the sigmoid cross-entropy at that index.      *)
(* Reals are exact rationals <<numerator, denominator>>; <<0, 0>> is NaN.  *)
(***************************************************************************)
EXTENDS Integers, Sequences, FiniteSets, TLC

VARIABLES cfg, pred, label, weight, calls, ret

vars == <<cfg, pred, label, weight, calls, ret>>

(* ---------------------------------------------------------------- bounds *)
MaxN == 2        \* batch size N ranges over 1..MaxN
MaxC == 2        \* prediction channels C range over 1..MaxC
MaxCalls == 2    \* calls made on the same tensors

(* ------------------------------------------------------ program constants *)
IgnoreIndex == 255          \* ignore_index=255
EpsDen == 1000000           \* 1e-6 is 1 / EpsDen

(* ------------------------------------------------------------- rationals *)
NaN == <<0, 0>>
IsNaN(q) == q[2] = 0
Rat(n) == <<n, 1>>
RAdd(a, b) == IF IsNaN(a) \/ IsNaN(b) THEN NaN
              ELSE <<a[1] * b[2] + b[1] * a[2], a[2] * b[2]>>
RSub(a, b) == IF IsNaN(a) \/ IsNaN(b) THEN NaN
              ELSE <<a[1] * b[2] - b[1] * a[2], a[2] * b[2]>>
RMul(a, b) == IF IsNaN(a) \/ IsNaN(b) THEN NaN
              ELSE <<a[1] * b[1], a[2] * b[2]>>
\* a is a positive number wherever the code takes a reciprocal
RRecip(a) == IF IsNaN(a) THEN NaN ELSE <<a[2], a[1]>>
\* hist / hist.sum(): 0 / 0 is NaN
RDiv(n, d) == IF d = 0 THEN NaN ELSE <<n, d>>
REq(a, b) == ~IsNaN(a) /\ ~IsNaN(b) /\ a[1] * b[2] = b[1] * a[2]
RGeq(a, b) == ~IsNaN(a) /\ ~IsNaN(b) /\ a[1] * b[2] >= b[1] * a[2]
RGt(a, b) == ~IsNaN(a) /\ ~IsNaN(b) /\ a[1] * b[2] > b[1] * a[2]

(* --------------------------------------------------------------- tensors *)
NoneT == [none |-> TRUE]

RECURSIVE Indices(_)
Indices(shape) ==
    IF shape = <<>> THEN {<<>>}
    ELSE {<<i>> \o r : i \in 1..Head(shape), r \in Indices(Tail(shape))}

Tensor(shape, data) == [none |-> FALSE, shape |-> shape, data |-> data]

Dim(t) == Len(t.shape)

\* t[i]: the i-th slice along the first axis
Slice(t, i) == Tensor(Tail(t.shape), [p \in Indices(Tail(t.shape)) |-> t.data[<<i>> \o p]])

RECURSIVE SumSeq(_)
SumSeq(s) == IF s = <<>> THEN 0 ELSE Head(s) + SumSeq(Tail(s))

\* torch broadcasting of two shapes, right-aligned; <<-1>> when incompatible
PadLeft(s, n) == [i \in 1..n |-> IF i <= n - Len(s) THEN 1 ELSE s[i - (n - Len(s))]]
Max2(a, b) == IF a >= b THEN a ELSE b
Broadcast(s1, s2) ==
    LET n == Max2(Len(s1), Len(s2))
        a == PadLeft(s1, n)
        b == PadLeft(s2, n)
    IN IF \A i \in 1..n : a[i] = b[i] \/ a[i] = 1 \/ b[i] = 1
       THEN [i \in 1..n |-> IF a[i] = 1 THEN b[i] ELSE a[i]]
       ELSE <<-1>>

(* ------------------------------------------------------ calculate_weights *)
\* label.float().histc(bins, min=0, max=bins-1): elements outside [min, max]
\* are not counted; with min = max (bins = 1) torch takes the range of the
\* data instead, so every element falls in the single bin.
HistcBin(v, bins) == IF v = bins - 1 THEN bins ELSE ((v * bins) \div (bins - 1)) + 1
Histc(t, bins) ==
    IF bins = 1 THEN <<Cardinality(DOMAIN t.data)>>
    ELSE [b \in 1..bins |->
            Cardinality({p \in DOMAIN t.data :
                            /\ t.data[p] >= 0
                            /\ t.data[p] <= bins - 1
                            /\ HistcBin(t.data[p], bins) = b})]

UpperBound == Rat(1)
Indicator(b) == IF b THEN Rat(1) ELSE Rat(0)

calculate_weights(lbl, num_classes, norm) ==
    LET hist == Histc(lbl, num_classes)
        total == SumSeq(hist)
        hist_norm == [c \in 1..num_classes |-> RDiv(hist[c], total)]
    IN [c \in 1..num_classes |->
          IF norm
          THEN RAdd(RMul(RMul(Indicator(hist[c] # 0), UpperBound),
                         RRecip(RAdd(hist_norm[c], <<1, EpsDen>>))), Rat(1))
          ELSE RAdd(RMul(RMul(Indicator(hist[c] # 0), UpperBound),
                         RSub(Rat(1), hist_norm[c])), Rat(1))]

(* -------------------------------------------------- _expand_onehot_labels *)
\* a variant that forgets the shift of the excluded zero class
ShiftLabelsNoShift(labels, ignore_index, include_zero) == labels

\* labels[labels != ignore_index] = labels[labels != ignore_index] - 1,
\* written into the tensor the caller passed
ShiftLabels(labels, ignore_index, include_zero) ==
    IF include_zero THEN labels
    ELSE Tensor(labels.shape,
                [p \in DOMAIN labels.data |->
                    IF labels.data[p] # ignore_index
                    THEN labels.data[p] - 1 ELSE labels.data[p]])

\* a variant that forgets (labels >= 0)
ValidMaskNoSign(labels, ignore_index) ==
    [p \in DOMAIN labels.data |-> labels.data[p] # ignore_index]

\* valid_mask = (labels >= 0) & (labels != ignore_index)
ValidMask(labels, ignore_index) ==
    [p \in DOMAIN labels.data |->
        labels.data[p] >= 0 /\ labels.data[p] # ignore_index]

\* the label index that target index <<n, c, ...>> reads: <<n, ...>>
LabelIndex(q) == <<q[1]>> \o SubSeq(q, 3, Len(q))

\* bin_labels[inds[0], labels[valid_mask], inds[1], inds[2]] = 1
\* (bin_labels[inds[0], labels[valid_mask]] = 1 for a 1D label)
BinLabels(labels, valid, target_shape) ==
    Tensor(target_shape,
           [q \in Indices(target_shape) |->
               IF valid[LabelIndex(q)] /\ labels.data[LabelIndex(q)] = q[2] - 1
               THEN 1 ELSE 0])

\* valid_mask.unsqueeze(1).expand(target_shape).float(), times the sample
\* weights when they are given
BinLabelWeights(label_weights, valid, target_shape) ==
    Tensor(target_shape,
           [q \in Indices(target_shape) |->
               (IF label_weights.none THEN 1 ELSE label_weights.data[LabelIndex(q)])
               * (IF valid[LabelIndex(q)] THEN 1 ELSE 0)])

\* bin_label_weights *= valid_mask writes through the expanded view into the
\* caller's weight tensor
WeightsAfterInplaceMul(label_weights, valid) ==
    Tensor(label_weights.shape,
           [p \in DOMAIN label_weights.data |->
               label_weights.data[p] * (IF valid[p] THEN 1 ELSE 0)])

\* The in-place multiply works on a view whose class axis has stride 0.  With
\* more than one class several elements of the view share one memory cell:
\* builds that check for internal overlap raise RuntimeError, the others
\* complete.  overlap_raises is the outcome the build takes.
_expand_onehot_labels(labels, label_weights, target_shape, ignore_index, include_zero, overlap_raises) ==
    LET shifted == ShiftLabels(labels, ignore_index, include_zero)
        valid == ValidMask(shifted, ignore_index)
        overlap == ~label_weights.none /\ target_shape[2] > 1
    IN IF \E p \in DOMAIN shifted.data :
             valid[p] /\ shifted.data[p] >= target_shape[2]
       THEN [outcome |-> "IndexError", labels |-> shifted,
             label_weights |-> label_weights,
             bin_labels |-> NoneT, bin_label_weights |-> NoneT]
       ELSE IF overlap /\ overlap_raises
       THEN [outcome |-> "RuntimeError", labels |-> shifted,
             label_weights |-> label_weights,
             bin_labels |-> NoneT, bin_label_weights |-> NoneT]
       ELSE [outcome |-> "ok", labels |-> shifted,
             label_weights |-> IF label_weights.none THEN label_weights
                               ELSE WeightsAfterInplaceMul(label_weights, valid),
             bin_labels |-> BinLabels(shifted, valid, target_shape),
             bin_label_weights |->
                 BinLabelWeights(label_weights, valid, target_shape)]

(* --------------------------------------------------- binary_cross_entropy *)
\* (pred.dim() == 2 and label.dim() == 1) or (pred.dim() == 4 and label.dim() == 3)
SupportedRanks(pred_dim, label_dim) ==
    (pred_dim = 2 /\ label_dim = 1) \/ (pred_dim = 4 /\ label_dim = 3)

\* a variant without the assert: an unsupported pair of ranks falls through
RankStepNoAssert(pred_shape, lbl, wgt, ignore_index, include_zero, overlap_raises) ==
    IF Len(pred_shape) = Dim(lbl) \/ ~SupportedRanks(Len(pred_shape), Dim(lbl))
    THEN [outcome |-> "ok", expanded |-> FALSE, labels |-> lbl,
          label_weights |-> wgt, target |-> lbl, elem_weight |-> wgt]
    ELSE LET e == _expand_onehot_labels(lbl, wgt, pred_shape, ignore_index,
                                        include_zero, overlap_raises)
         IN [outcome |-> e.outcome, expanded |-> TRUE, labels |-> e.labels,
             label_weights |-> e.label_weights, target |-> e.bin_labels,
             elem_weight |-> e.bin_label_weights]

\* if pred.dim() != label.dim(): assert ...; label, weight = _expand_onehot_labels(...)
\* labels / label_weights are the caller's tensors after the step, target /
\* elem_weight the local label / weight the rest of the function uses.
RankStep(pred_shape, lbl, wgt, ignore_index, include_zero, overlap_raises) ==
    IF Len(pred_shape) = Dim(lbl)
    THEN [outcome |-> "ok", expanded |-> FALSE, labels |-> lbl,
          label_weights |-> wgt, target |-> lbl, elem_weight |-> wgt]
    ELSE IF ~SupportedRanks(Len(pred_shape), Dim(lbl))
    THEN [outcome |-> "AssertionError", expanded |-> FALSE, labels |-> lbl,
          label_weights |-> wgt, target |-> NoneT, elem_weight |-> NoneT]
    ELSE LET e == _expand_onehot_labels(lbl, wgt, pred_shape, ignore_index,
                                        include_zero, overlap_raises)
         IN [outcome |-> e.outcome, expanded |-> TRUE, labels |-> e.labels,
             label_weights |-> e.label_weights, target |-> e.bin_labels,
             elem_weight |-> e.bin_label_weights]

\* class_weight if include_zero else class_weight[1:]
DropZero(class_weight, include_zero) ==
    IF include_zero THEN class_weight ELSE Tail(class_weight)

\* class_weight.unsqueeze(0).unsqueeze(2).unsqueeze(3)
PosWeightShape(pos_weight) == <<1, Len(pos_weight), 1, 1>>

\* F.binary_cross_entropy_with_logits(input, target, pos_weight=..., reduction='none')
\* returns a tensor of the input's shape: the positive weight must broadcast
\* to exactly that shape, anything else raises RuntimeError.
BceShapeOk(pos_weight, in_shape) ==
    Broadcast(PosWeightShape(pos_weight), in_shape) = in_shape

\* the elementwise loss of one call: at index q the term of target q with the
\* positive weight of q's channel
BceTerms(target, pos_weight) ==
    [q \in DOMAIN target.data |->
        [t |-> target.data[q],
         pw |-> IF Len(pos_weight) = 1 THEN pos_weight[1] ELSE pos_weight[q[2]]]]

\* the per-image branch: for i in range(pred.shape[0])
ImageWeights(target, pred_shape, norm) ==
    [i \in 1..pred_shape[1] |-> calculate_weights(Slice(target, i), pred_shape[2], norm)]

\* the batch branch: the class weights in use before the zero entry is dropped
BatchWeights(target, pred_shape, img_based_class_weights, batch_weights, class_weight) ==
    IF class_weight.none /\ img_based_class_weights # "None" /\ batch_weights
    THEN [none |-> FALSE,
          vec |-> calculate_weights(target, pred_shape[2],
                                    img_based_class_weights = "norm")]
    ELSE class_weight

Failed(r, outcome) ==
    [outcome |-> outcome, expanded |-> r.expanded, labels |-> r.labels,
     label_weights |-> r.label_weights, target |-> r.target,
     elem_weight |-> r.elem_weight, class_weights |-> <<>>,
     pos_weights |-> <<>>, loss |-> NoneT]

\* lines 82-110: the elementwise loss, before weight_reduce_loss
ElementLoss(r, pred_shape, img_based_class_weights, batch_weights, class_weight, include_zero) ==
    IF class_weight.none /\ img_based_class_weights # "None" /\ ~batch_weights
    THEN IF ~(Len(pred_shape) > 2 /\ Dim(r.target) > 1)
         THEN Failed(r, "AssertionError")
         ELSE LET cws == ImageWeights(r.target, pred_shape,
                                      img_based_class_weights = "norm")
                  pws == [i \in DOMAIN cws |-> DropZero(cws[i], include_zero)]
              IN IF \E i \in DOMAIN pws :
                       ~BceShapeOk(pws[i], <<1>> \o Tail(pred_shape))
                 THEN [Failed(r, "RuntimeError") EXCEPT
                          !.class_weights = cws, !.pos_weights = pws]
                 ELSE [Failed(r, "ok") EXCEPT
                          !.class_weights = cws, !.pos_weights = pws,
                          !.loss = Tensor(r.target.shape,
                              [q \in DOMAIN r.target.data |->
                                  BceTerms(r.target, pws[q[1]])[q]])]
    ELSE LET cw == BatchWeights(r.target, pred_shape, img_based_class_weights,
                                batch_weights, class_weight)
         IN IF cw.none
            THEN Failed(r, IF include_zero THEN "AttributeError" ELSE "TypeError")
            ELSE LET pw == DropZero(cw.vec, include_zero)
                 IN IF r.target.shape # pred_shape
                    THEN [Failed(r, "ValueError") EXCEPT
                             !.class_weights = <<cw.vec>>, !.pos_weights = <<pw>>]
                    ELSE IF ~BceShapeOk(pw, pred_shape)
                    THEN [Failed(r, "RuntimeError") EXCEPT
                             !.class_weights = <<cw.vec>>, !.pos_weights = <<pw>>]
                    ELSE [Failed(r, "ok") EXCEPT
                             !.class_weights = <<cw.vec>>, !.pos_weights = <<pw>>,
                             !.loss = Tensor(r.target.shape, BceTerms(r.target, pw))]

\* weight_reduce_loss(loss, weight, reduction, avg_factor=None) of
\* mmseg/models/losses/utils.py: the elementwise loss times the weight, then
\* passed through ("none") or reduced to a scalar ("sum", "mean")
weight_reduce_loss(loss, wgt, reduction) ==
    LET terms == [q \in DOMAIN loss.data |->
                    [t |-> loss.data[q].t, pw |-> loss.data[q].pw,
                     w |-> IF wgt.none THEN 1 ELSE wgt.data[q]]]
    IN IF reduction = "none"
       THEN [none |-> FALSE, kind |-> "tensor", shape |-> loss.shape,
             reduction |-> reduction, terms |-> terms]
       ELSE [none |-> FALSE, kind |-> "scalar", shape |-> <<>>,
             reduction |-> reduction, terms |-> terms]

binary_cross_entropy(pred_shape, lbl, wgt, img_based_class_weights, batch_weights, class_weight, reduction, ignore_index, include_zero, overlap_raises) ==
    LET r == RankStep(pred_shape, lbl, wgt, ignore_index, include_zero,
                      overlap_raises)
    IN IF r.outcome # "ok" THEN Failed(r, r.outcome)
       ELSE LET e == ElementLoss(r, pred_shape, img_based_class_weights,
                                 batch_weights, class_weight, include_zero)
            IN IF e.outcome # "ok" THEN e
               ELSE [e EXCEPT !.loss =
                        weight_reduce_loss(e.loss, r.elem_weight, reduction)]

(* ------------------------------------------------------------ the inputs *)
\* a prediction (N, C) or (N, C, H, W); the spatial extent is 1 x 1
PredShapes ==
    {<<n, c>> : n \in 1..MaxN, c \in 1..MaxC}
        \cup {<<n, c, 1, 1>> : n \in 1..MaxN, c \in 1..MaxC}

\* the classes of the labels: one per channel, and the background class 0 in
\* front of them when it is excluded from the loss
NumClasses(pred_shape, include_zero) ==
    IF include_zero THEN pred_shape[2] ELSE pred_shape[2] + 1

LabelValues(pred_shape, include_zero) ==
    (0..(NumClasses(pred_shape, include_zero) - 1)) \cup {IgnoreIndex}

TensorsOf(shape, values) ==
    {Tensor(shape, d) : d \in [Indices(shape) -> values]}

\* a label that is already one-hot: 1 at the channel of each sample's class
OneHotsOf(shape) ==
    {Tensor(shape, [q \in Indices(shape) |-> IF d[q[1]] = q[2] THEN 1 ELSE 0]) :
        d \in [1..shape[1] -> 1..shape[2]]}

\* class-index labels (N,) and (N, H, W), one-hot labels (N, C) and (N, C, H, W)
Labels(pred_shape, include_zero) ==
    TensorsOf(<<pred_shape[1]>>, LabelValues(pred_shape, include_zero))
        \cup TensorsOf(<<pred_shape[1], 1, 1>>, LabelValues(pred_shape, include_zero))
        \cup OneHotsOf(<<pred_shape[1], pred_shape[2]>>)
        \cup OneHotsOf(<<pred_shape[1], pred_shape[2], 1, 1>>)

\* no sample weights, or the weight n + 1 for every element of sample n
Weights(shape) ==
    {NoneT, Tensor(shape, [p \in Indices(shape) |-> p[1] + 1])}

\* class_weight=None, or one weight per class: 1, 2, ...
ClassWeights(num_classes) ==
    {NoneT, [none |-> FALSE, vec |-> [c \in 1..num_classes |-> Rat(c)]]}

NoRet == [op |-> "none", outcome |-> "none"]

(* ---------------------------------------- BinaryCrossEntropyLoss.__init__ *)
Init ==
    /\ pred \in PredShapes
    /\ \E include_zero \in BOOLEAN :
          /\ cfg \in [include_zero : {include_zero},
                      img_based_class_weights : {"None", "norm", "no_norm"},
                      batch_weights : BOOLEAN,
                      reduction : {"mean"},
                      class_weight : ClassWeights(NumClasses(pred, include_zero)),
                      loss_weight : {1}]
          /\ label \in Labels(pred, include_zero)
    /\ weight \in Weights(label.shape)
    /\ calls = 0
    /\ ret = NoRet

(* ----------------------------------------- BinaryCrossEntropyLoss.forward *)
\* reduction_override: unset (the configured "mean" applies) or "none"
ReductionOverrides == {"None", "none"}

\* what the build can do on the in-place multiply of the expander: nothing
\* to choose unless sample weights are expanded over more than one class
OverlapOutcomes == IF ~weight.none /\ pred[2] > 1 THEN BOOLEAN ELSE {FALSE}

Forward ==
    /\ calls < MaxCalls
    /\ \E reduction_override \in ReductionOverrides, overlap_raises \in OverlapOutcomes :
          LET reduction == IF reduction_override # "None"
                           THEN reduction_override ELSE cfg.reduction
          IN \E r \in {binary_cross_entropy(pred, label, weight,
                       cfg.img_based_class_weights, cfg.batch_weights,
                       cfg.class_weight, reduction, IgnoreIndex,
                       cfg.include_zero, overlap_raises)} :
             /\ label' = r.labels
             /\ weight' = r.label_weights
             /\ ret' = [op |-> "forward", outcome |-> r.outcome,
                        labelIn |-> label, weightIn |-> weight,
                        reduction |-> reduction, expanded |-> r.expanded,
                        target |-> r.target, elem_weight |-> r.elem_weight,
                        class_weights |-> r.class_weights,
                        pos_weights |-> r.pos_weights,
                        loss |-> IF r.loss.none THEN NoneT
                                 ELSE [r.loss EXCEPT !.terms =
                                         [q \in DOMAIN r.loss.terms |->
                                            [t |-> r.loss.terms[q].t,
                                             pw |-> r.loss.terms[q].pw,
                                             w |-> r.loss.terms[q].w * cfg.loss_weight]]]]
    /\ calls' = calls + 1
    /\ UNCHANGED <<cfg, pred>>

Next == Forward

Spec == Init /\ [][Next]_vars

(* ------------------------------- direct calls of _expand_onehot_labels *)
ExpandCall ==
    /\ calls < MaxCalls
    /\ SupportedRanks(Len(pred), Dim(label))
    /\ \E overlap_raises \in OverlapOutcomes :
          \E e \in {_expand_onehot_labels(label, weight, pred, IgnoreIndex,
                                          cfg.include_zero, overlap_raises)} :
             /\ label' = e.labels
             /\ weight' = e.label_weights
             /\ ret' = [op |-> "expand", outcome |-> e.outcome,
                        labelIn |-> label, weightIn |-> weight,
                        bin_labels |-> e.bin_labels,
                        bin_label_weights |-> e.bin_label_weights]
    /\ calls' = calls + 1
    /\ UNCHANGED <<cfg, pred>>

ExpandNext == ExpandCall

SpecExpand == Init /\ [][ExpandNext]_vars

(* ----------------------------------- direct calls of calculate_weights *)
WeightsCall ==
    /\ calls < MaxCalls
    /\ \E num_classes \in 1..MaxC, norm \in BOOLEAN :
          ret' = [op |-> "calculate_weights", outcome |-> "ok",
                  labelIn |-> label, num_classes |-> num_classes,
                  norm |-> norm,
                  weights |-> calculate_weights(label, num_classes, norm)]
    /\ calls' = calls + 1
    /\ UNCHANGED <<cfg, pred, label, weight>>

WeightsNext == WeightsCall

SpecWeights == Init /\ [][WeightsNext]_vars

(* ================================================================ claims *)
\* the class index the loss sees at a label value: the value itself, or the
\* value minus one when the zero class is excluded (the ignore index stays)
ClassIndex(v) == IF ~cfg.include_zero /\ v # IgnoreIndex THEN v - 1 ELSE v
Validity(v) == IF ClassIndex(v) >= 0 /\ ClassIndex(v) # IgnoreIndex THEN 1 ELSE 0
InClassRange(t) ==
    \A p \in DOMAIN t.data :
        t.data[p] \in 0..(NumClasses(pred, cfg.include_zero) - 1)
HistogramInUse ==
    cfg.class_weight.none /\ cfg.img_based_class_weights # "None"

\* C1: with no fixed class weights, img_based_class_weights=None and
\* include_zero=True, forward on a prediction (N,C,H,W) and a label (N,H,W)
\* completes and returns a scalar: the plain sigmoid cross-entropy (positive
\* weight 1 everywhere) averaged over the valid elements.
C1_DefaultCallReturnsPlainLoss ==
    (/\ ret.op = "forward"
     /\ cfg.class_weight.none
     /\ cfg.img_based_class_weights = "None"
     /\ cfg.include_zero
     /\ Len(pred) = 4
     /\ Dim(ret.labelIn) = 3
     /\ ret.reduction = "mean")
    => (/\ ret.outcome = "ok"
        /\ ret.loss.kind = "scalar"
        /\ \A q \in DOMAIN ret.loss.terms : REq(ret.loss.terms[q].pw, Rat(1)))

\* C2: a call is a pure function of its inputs: after every call the caller's
\* label tensor holds the values it held before the call, for every
\* configuration.
C2_CallsLeaveLabelUntouched ==
    ret.op = "forward" => label = ret.labelIn

\* C3: for a label with no ignored position and every value in the class
\* range, the expanded binary labels sum to 1 over the class axis at every
\* position, the 1 standing at the channel of the (shifted) label; where the
\* zero class is excluded and the label was 0, they sum to 0.
C3_ExpandedLabelsAreOneHot ==
    (/\ ret.op = "expand"
     /\ ret.outcome = "ok"
     /\ InClassRange(ret.labelIn))
    => \A p \in DOMAIN ret.labelIn.data :
          LET v == ret.labelIn.data[p]
              row == [c \in 1..pred[2] |->
                        ret.bin_labels.data[<<p[1], c>> \o Tail(p)]]
          IN IF ~cfg.include_zero /\ v = 0
             THEN SumSeq(row) = 0
             ELSE /\ SumSeq(row) = 1
                  /\ row[(IF cfg.include_zero THEN v ELSE v - 1) + 1] = 1

C3_Witness ==
    /\ ret.op = "expand"
    /\ ret.outcome = "ok"
    /\ ~cfg.include_zero
    /\ InClassRange(ret.labelIn)
    /\ \E p \in DOMAIN ret.labelIn.data : ret.labelIn.data[p] = 0
    /\ \E p \in DOMAIN ret.labelIn.data : ret.labelIn.data[p] >= 1

\* C4: the weight tensor the expander returns has the prediction's shape and
\* at every index of every class channel equals validity times the sample
\* weight there (1 without sample weights), validity being 1 for a label
\* that is non-negative and not the ignore index; so an ignored position, and
\* a position labelled 0 when the zero class is excluded, has weight 0 in
\* every channel.
C4_ExpandedWeightsAreValidityTimesWeight ==
    (ret.op = "expand" /\ ret.outcome = "ok")
    => /\ ret.bin_label_weights.shape = pred
       /\ DOMAIN ret.bin_label_weights.data = Indices(pred)
       /\ \A q \in Indices(pred) :
             LET v == ret.labelIn.data[LabelIndex(q)]
                 w == IF ret.weightIn.none THEN 1
                      ELSE ret.weightIn.data[LabelIndex(q)]
             IN /\ ret.bin_label_weights.data[q] = Validity(v) * w
                /\ (v = IgnoreIndex \/ (~cfg.include_zero /\ v = 0))
                      => ret.bin_label_weights.data[q] = 0

C4_Witness ==
    /\ ret.op = "expand"
    /\ ret.outcome = "ok"
    /\ ~cfg.include_zero
    /\ ~ret.weightIn.none
    /\ \E p \in DOMAIN ret.labelIn.data : ret.labelIn.data[p] = 0
    /\ \E q \in Indices(pred) : ret.bin_label_weights.data[q] > 1

\* C5: calculate_weights(label, C, norm) returns C entries, each >= 1, and
\* exactly 1 for every class absent from the label, for norm true and false
\* (stated for C > 1, where the histogram has one bin per class index).
C5_WeightsAtLeastOne ==
    (ret.op = "calculate_weights" /\ ret.num_classes > 1)
    => /\ Len(ret.weights) = ret.num_classes
       /\ \A c \in 1..ret.num_classes :
             /\ RGeq(ret.weights[c], Rat(1))
             /\ (\A p \in DOMAIN ret.labelIn.data : ret.labelIn.data[p] # c - 1)
                   => REq(ret.weights[c], Rat(1))

\* C6: for a prediction (N,C) and a label (N,) with a class-weight vector in
\* use (fixed, or the batch histogram), reduction "none" completes and
\* returns an elementwise loss of shape (N,C) in which the weight of class c
\* is applied to exactly the entries (n, c) (stated with the zero class
\* included).
C6_TwoDimBatchesSupported ==
    (/\ ret.op = "forward"
     /\ Len(pred) = 2
     /\ Dim(ret.labelIn) = 1
     /\ cfg.include_zero
     /\ ret.reduction = "none"
     /\ (~cfg.class_weight.none
            \/ (cfg.img_based_class_weights # "None" /\ cfg.batch_weights)))
    => (/\ ret.outcome = "ok"
        /\ ret.loss.shape = pred
        /\ \A q \in DOMAIN ret.loss.terms :
              ret.loss.terms[q].pw = ret.pos_weights[1][q[2]])

\* C7: when the ranks differ and are neither (2,1) nor (4,3), the call fails
\* with an assertion error before the expander runs: no label value is
\* modified and no loss is returned; when the ranks are equal the expander is
\* not invoked and label and weight are used as passed.
C7_RankContract ==
    ret.op = "forward"
    => /\ (/\ Len(pred) # Dim(ret.labelIn)
           /\ <<Len(pred), Dim(ret.labelIn)>> \notin {<<2, 1>>, <<4, 3>>})
          => (/\ ret.outcome = "AssertionError"
              /\ ~ret.expanded
              /\ label = ret.labelIn
              /\ ret.loss.none)
       /\ Len(pred) = Dim(ret.labelIn)
          => (/\ ~ret.expanded
              /\ ret.target = ret.labelIn
              /\ ret.elem_weight = ret.weightIn
              /\ label = ret.labelIn
              /\ weight = ret.weightIn)

C7_Witness ==
    /\ ret.op = "forward"
    /\ Len(pred) = 4
    /\ Dim(ret.labelIn) = 1
    /\ ~cfg.include_zero
    /\ \E p \in DOMAIN ret.labelIn.data : ret.labelIn.data[p] # IgnoreIndex
    /\ ret.outcome = "AssertionError"

\* C8: in batch histogram mode on a prediction (N,C,H,W) and a class-index
\* label (N,H,W), entry c of the class-weight vector follows the number of
\* positions whose class index is c: exactly 1 for a class that does not
\* occur, more than 1 for a class that occurs (unless it is the only class,
\* in 'no_norm' mode) (stated for C > 1 with the zero class included, where
\* the class index is the label value).
C8_BatchHistogramCountsClassIndices ==
    (/\ ret.op = "forward"
     /\ HistogramInUse
     /\ cfg.batch_weights
     /\ cfg.include_zero
     /\ pred[2] > 1
     /\ Len(pred) = 4
     /\ Dim(ret.labelIn) = 3
     /\ ret.class_weights # <<>>)
    => \A c \in 1..pred[2] :
          LET valid == {p \in DOMAIN ret.labelIn.data :
                           Validity(ret.labelIn.data[p]) = 1}
              occurs == {p \in valid : ClassIndex(ret.labelIn.data[p]) = c - 1}
          IN /\ occurs = {} => REq(ret.class_weights[1][c], Rat(1))
             /\ (/\ occurs # {}
                 /\ ~(cfg.img_based_class_weights = "no_norm" /\ occurs = valid))
                   => RGt(ret.class_weights[1][c], Rat(1))

\* C9: in every mode combination the class-weight vector applied as the
\* positive weight has as many entries as there are classes, minus one if
\* the zero class is excluded, and that is the number of prediction channels
\* (stated for a prediction (N,C,H,W) with a label (N,H,W)).
C9_AppliedWeightLengthIsChannels ==
    (/\ ret.op = "forward"
     /\ Len(pred) = 4
     /\ Dim(ret.labelIn) = 3
     /\ ret.pos_weights # <<>>)
    => \A i \in DOMAIN ret.pos_weights :
          /\ Len(ret.pos_weights[i]) =
                Len(ret.class_weights[i]) - (IF cfg.include_zero THEN 0 ELSE 1)
          /\ Len(ret.pos_weights[i]) = pred[2]

\* C10: when no label value falls in [0, num_classes-1], calculate_weights
\* returns exactly 1 for every class: no undefined value of the division by
\* the zero histogram total reaches the weights (stated for num_classes > 1).
C10_EmptyHistogramGivesOnes ==
    (/\ ret.op = "calculate_weights"
     /\ ret.num_classes > 1
     /\ \A p \in DOMAIN ret.labelIn.data :
           ret.labelIn.data[p] \notin 0..(ret.num_classes - 1))
    => \A c \in 1..ret.num_classes :
          ~IsNaN(ret.weights[c]) /\ REq(ret.weights[c], Rat(1))

====
